---------------------------- MODULE Spec2Model ----------------------------
(***************************************************************************)
(* A model of src/src/ir_Panasonic.cpp: the Panasonic (Kaseikyo-like)      *)
(* 48-bit command codec, the two-section Panasonic A/C frame codec and the *)
(* IRPanasonicAc state model (a 27 byte buffer with bitfield accessors).   *)
(*                                                                         *)
(* Bytes are naturals in 0..255, 64-bit words are sequences of 64 bits     *)
(* (most significant bit first), the raw capture buffer is a sequence of   *)
(* tick counts.                                                            *)
(***************************************************************************)
EXTENDS Integers, Sequences, FiniteSets, TLC

VARIABLES
  remote_state,  \* IRPanasonicAc::remote_state[kPanasonicAcStateLength]
  _temp,         \* IRPanasonicAc::_temp
  _swingh,       \* IRPanasonicAc::_swingh
  last,          \* the IRPanasonicAc method called last
  ncalls,        \* calls made on the object (SpecRaw)
  pc,            \* where the send / capture / decode cycle stands
  sent,          \* the send call that produced the captured sequence
  results,       \* the decode_results handed to the decoder
  ret,           \* the decode call made last and what it returned
  r,             \* sendPanasonicAC: the loop counter (uint16_t)
  emitted        \* sendPanasonicAC: what the loop has emitted so far

vars == <<remote_state, _temp, _swingh, last, ncalls,
          pc, sent, results, ret, r, emitted>>

acVars == <<remote_state, _temp, _swingh, last, ncalls>>
ioVars == <<pc, sent, results, ret>>
txVars == <<r, emitted>>

---------------------------------------------------------------------------
(* Fixed-width integer arithmetic.                                         *)

Min(a, b) == IF a < b THEN a ELSE b
Max(a, b) == IF a > b THEN a ELSE b

RECURSIVE Pow2(_)
Pow2(n) == IF n = 0 THEN 1 ELSE 2 * Pow2(n - 1)

U8(x) == x % 256

RECURSIVE BitAnd(_, _)
BitAnd(a, b) ==
  IF a = 0 \/ b = 0 THEN 0
  ELSE (a % 2) * (b % 2) + 2 * BitAnd(a \div 2, b \div 2)

RECURSIVE BitOr(_, _)
BitOr(a, b) ==
  IF a = 0 THEN b ELSE IF b = 0 THEN a
  ELSE Max(a % 2, b % 2) + 2 * BitOr(a \div 2, b \div 2)

RECURSIVE BitXor(_, _)
BitXor(a, b) ==
  IF a = 0 THEN b ELSE IF b = 0 THEN a
  ELSE ((a + b) % 2) + 2 * BitXor(a \div 2, b \div 2)

\* ~x on a uint8_t operand, truncated back to 8 bits
BitNot8(x) == 255 - x

---------------------------------------------------------------------------
(* Constants of the A/C protocol (ir_Panasonic.h, IRremoteESP8266.h).      *)

kPanasonicAcStateLength == 27
kPanasonicAcSection1Length == 8
kPanasonicAcChecksumInit == 244
kPanasonicAcPower == 1
kPanasonicAcAuto == 0
kPanasonicAcDry == 2
kPanasonicAcCool == 3
kPanasonicAcHeat == 4
kPanasonicAcFan == 6
kPanasonicAcFanMax == 4
kPanasonicAcFanAuto == 7
kPanasonicAcFanOffset == 3
kPanasonicAcMinTemp == 16
kPanasonicAcMaxTemp == 30
kPanasonicAcFanModeTemp == 27
kPanasonicAcQuiet == 1
kPanasonicAcPowerful == 32
kPanasonicAcSwingVAuto == 15
kPanasonicAcSwingVUp == 1
kPanasonicAcSwingVDown == 5
kPanasonicAcSwingHAuto == 13
kPanasonicAcSwingHFullLeft == 9
kPanasonicAcSwingHLeft == 10
kPanasonicAcSwingHMiddle == 6
kPanasonicAcSwingHRight == 11
kPanasonicAcSwingHFullRight == 12

\* enum panasonic_ac_remote_model_t
kPanasonicUnknown == 0
kPanasonicLke == 1
kPanasonicNke == 2
kPanasonicDke == 3
kPanasonicJke == 4

KnownModels == {kPanasonicDke, kPanasonicJke, kPanasonicLke, kPanasonicNke}

RecognizedModes == {kPanasonicAcAuto, kPanasonicAcCool, kPanasonicAcHeat,
                    kPanasonicAcDry, kPanasonicAcFan}

SwingHDirections == {kPanasonicAcSwingHAuto, kPanasonicAcSwingHMiddle,
                     kPanasonicAcSwingHFullLeft, kPanasonicAcSwingHLeft,
                     kPanasonicAcSwingHRight, kPanasonicAcSwingHFullRight}

kPanasonicKnownGoodState ==
  [i \in 0..(kPanasonicAcStateLength - 1) |->
     <<2, 32, 224, 4, 0, 0, 0, 6,
       2, 32, 224, 4, 0, 0, 0, 128, 0, 0, 0, 14,
       224, 0, 0, 129, 0, 0, 0>>[i + 1]]

---------------------------------------------------------------------------
(* IRPanasonicAc: the state model.  An object is the record                *)
(* [remote_state, _temp, _swingh]; every method is an operator from the    *)
(* object (and the arguments) to the object after the call.                *)

this == [remote_state |-> remote_state, _temp |-> _temp, _swingh |-> _swingh]

\* sumBytes(start, length, init): uint8_t sum of the first `length` bytes
RECURSIVE sumBytes(_, _, _)
sumBytes(state, length, init) ==
  IF length = 0 THEN U8(init)
  ELSE U8(sumBytes(state, length - 1, init) + state[length - 1])

validChecksum(state, length) ==
  IF length < 2 THEN FALSE
  ELSE state[length - 1] = sumBytes(state, length - 1, kPanasonicAcChecksumInit)

calcChecksumNoSeed(state, length) == sumBytes(state, length - 1, 0)
calcChecksum(state, length) ==
  sumBytes(state, length - 1, kPanasonicAcChecksumInit)

fixChecksumSkipped(s, length) == s
fixChecksum(s, length) ==
  [s EXCEPT !.remote_state[length - 1] = calcChecksum(s.remote_state, length)]

getModelNkeBeforeDke(rs) ==
  IF rs[17] = 0 /\ BitAnd(rs[23], 128) # 0 THEN kPanasonicJke
  ELSE IF rs[17] = 6 /\ BitAnd(rs[13], 15) = 2 THEN kPanasonicLke
  ELSE IF rs[17] = 6 THEN kPanasonicNke
  ELSE IF rs[23] = 1 /\ rs[25] = 6 THEN kPanasonicDke
  ELSE kPanasonicUnknown
getModel(rs) ==
  IF rs[17] = 0 /\ BitAnd(rs[23], 128) # 0 THEN kPanasonicJke
  ELSE IF rs[17] = 6 /\ BitAnd(rs[13], 15) = 2 THEN kPanasonicLke
  ELSE IF rs[23] = 1 /\ rs[25] = 6 THEN kPanasonicDke
  ELSE IF rs[17] = 6 THEN kPanasonicNke
  ELSE kPanasonicUnknown

getSwingHorizontal(rs) == rs[17]

setSwingHAlwaysWrites(s, desired_direction) ==
  IF desired_direction \notin SwingHDirections THEN s
  ELSE [s EXCEPT !._swingh = desired_direction,
                 !.remote_state[17] = desired_direction]
setSwingH(s, desired_direction) ==
  IF desired_direction \notin SwingHDirections THEN s
  ELSE LET s1 == [s EXCEPT !._swingh = desired_direction]
           model == getModel(s1.remote_state)
       IN  IF model = kPanasonicDke
             THEN [s1 EXCEPT !.remote_state[17] = desired_direction]
           ELSE IF model \in {kPanasonicNke, kPanasonicLke}
             THEN [s1 EXCEPT !.remote_state[17] = kPanasonicAcSwingHMiddle]
           ELSE s1

setModelNoSwingH(s, model) ==
  IF model \notin KnownModels THEN s
  ELSE LET c == [s EXCEPT !.remote_state[13] = BitAnd(@, 240),
                          !.remote_state[17] = 0,
                          !.remote_state[23] = 129,
                          !.remote_state[25] = 0]
       IN  IF model = kPanasonicLke
             THEN [c EXCEPT !.remote_state[13] = BitOr(@, 2),
                            !.remote_state[17] = 6]
           ELSE IF model = kPanasonicDke
             THEN [c EXCEPT !.remote_state[23] = 1, !.remote_state[25] = 6]
           ELSE IF model = kPanasonicNke
             THEN [c EXCEPT !.remote_state[17] = 6]
           ELSE c
setModel(s, model) ==
  IF model \notin KnownModels THEN s
  ELSE LET c == [s EXCEPT !.remote_state[13] = BitAnd(@, 240),
                          !.remote_state[17] = 0,
                          !.remote_state[23] = 129,
                          !.remote_state[25] = 0]
       IN  IF model = kPanasonicLke
             THEN [c EXCEPT !.remote_state[13] = BitOr(@, 2),
                            !.remote_state[17] = 6]
           ELSE IF model = kPanasonicDke
             THEN setSwingH([c EXCEPT !.remote_state[23] = 1,
                                      !.remote_state[25] = 6], c._swingh)
           ELSE IF model = kPanasonicNke
             THEN [c EXCEPT !.remote_state[17] = 6]
           ELSE c

getRaw(s) == fixChecksum(s, kPanasonicAcStateLength)

setRaw(s, state) ==
  [s EXCEPT !.remote_state =
     [i \in 0..(kPanasonicAcStateLength - 1) |-> state[i]]]

stateReset(s) ==
  [remote_state |-> [i \in 0..(kPanasonicAcStateLength - 1) |->
                       kPanasonicKnownGoodState[i]],
   _temp |-> 25,
   _swingh |-> kPanasonicAcSwingHMiddle]

on(s) == [s EXCEPT !.remote_state[13] = BitOr(@, kPanasonicAcPower)]

off(s) ==
  [s EXCEPT !.remote_state[13] = BitAnd(@, BitNot8(kPanasonicAcPower))]

setPower(s, state) == IF state THEN on(s) ELSE off(s)

getPower(rs) == BitAnd(rs[13], kPanasonicAcPower) = kPanasonicAcPower

getMode(rs) == rs[13] \div 16

getTemp(rs) == rs[14] \div 2

setTempNoUpperLimit(s, celsius, remember) ==
  LET temperature == Max(celsius, kPanasonicAcMinTemp)
  IN  [s EXCEPT !.remote_state[14] = U8(temperature * 2),
                !._temp = IF remember THEN temperature ELSE @]
setTempAlwaysRemembers(s, celsius, remember) ==
  LET temperature ==
        Min(Max(celsius, kPanasonicAcMinTemp), kPanasonicAcMaxTemp)
  IN  [s EXCEPT !.remote_state[14] = U8(temperature * 2),
                !._temp = temperature]
setTemp(s, celsius, remember) ==
  LET temperature ==
        Min(Max(celsius, kPanasonicAcMinTemp), kPanasonicAcMaxTemp)
  IN  [s EXCEPT !.remote_state[14] = U8(temperature * 2),
                !._temp = IF remember THEN temperature ELSE @]

setMode(s, desired) ==
  LET s1 == IF desired = kPanasonicAcFan
              THEN setTemp(s, kPanasonicAcFanModeTemp, FALSE)
            ELSE IF desired \in RecognizedModes
              THEN setTemp(s, s._temp, TRUE)
            ELSE s
      mode == IF desired \in RecognizedModes THEN desired
              ELSE kPanasonicAcAuto
  IN  [s1 EXCEPT !.remote_state[13] =
                    BitOr(BitAnd(@, 15), U8(mode * 16))]

getSwingVertical(rs) == BitAnd(rs[16], 15)

setSwingV(s, desired_elevation) ==
  LET elevation ==
        IF desired_elevation # kPanasonicAcSwingVAuto
          THEN Min(Max(desired_elevation, kPanasonicAcSwingVUp),
                   kPanasonicAcSwingVDown)
          ELSE desired_elevation
  IN  [s EXCEPT !.remote_state[16] = BitOr(BitAnd(@, 240), elevation)]

setFanAnySpeed(s, speed) ==
  [s EXCEPT !.remote_state[16] =
     U8(BitOr(BitAnd(@, 15), (speed + kPanasonicAcFanOffset) * 16))]
setFan(s, speed) ==
  IF speed <= kPanasonicAcFanMax \/ speed = kPanasonicAcFanAuto
    THEN [s EXCEPT !.remote_state[16] =
            U8(BitOr(BitAnd(@, 15), (speed + kPanasonicAcFanOffset) * 16))]
    ELSE s

getFan(rs) == U8((rs[16] \div 16) - kPanasonicAcFanOffset)

getQuiet(rs) == BitAnd(rs[21], kPanasonicAcQuiet) # 0

getPowerful(rs) == BitAnd(rs[21], kPanasonicAcPowerful) # 0

\* setQuiet and setPowerful call each other with `false` only, and the
\* `false` branch calls nothing: the recursion is unfolded one level.
clearQuiet(s) ==
  [s EXCEPT !.remote_state[21] = BitAnd(@, BitNot8(kPanasonicAcQuiet))]

clearPowerful(s) ==
  [s EXCEPT !.remote_state[21] = BitAnd(@, BitNot8(kPanasonicAcPowerful))]

setQuietKeepsPowerful(s, state) ==
  IF state
    THEN [s EXCEPT !.remote_state[21] = BitOr(@, kPanasonicAcQuiet)]
    ELSE clearQuiet(s)
setQuiet(s, state) ==
  IF state
    THEN [clearPowerful(s) EXCEPT
            !.remote_state[21] = BitOr(@, kPanasonicAcQuiet)]
    ELSE clearQuiet(s)

setPowerful(s, state) ==
  IF state
    THEN [clearQuiet(s) EXCEPT
            !.remote_state[21] = BitOr(@, kPanasonicAcPowerful)]
    ELSE clearPowerful(s)

---------------------------------------------------------------------------
(* 64-bit words: sequences of 64 bits, most significant bit first.         *)

WordBits == 64

\* (uint64_t) n, for a natural n below 2^31
U64(n) ==
  [i \in 1..WordBits |->
     IF WordBits - i > 30 THEN 0 ELSE (n \div Pow2(WordBits - i)) % 2]

Shl64(w, k) == [i \in 1..WordBits |-> IF i + k <= WordBits THEN w[i + k] ELSE 0]
Shr64(w, k) == [i \in 1..WordBits |-> IF i - k >= 1 THEN w[i - k] ELSE 0]
Or64(v, w) == [i \in 1..WordBits |-> Max(v[i], w[i])]
Xor64(v, w) == [i \in 1..WordBits |-> (v[i] + w[i]) % 2]
\* w & 0xFFFFFFFF and w & 0xFF
Low32(w) == [i \in 1..WordBits |-> IF i > 32 THEN w[i] ELSE 0]
Low8(w) == [i \in 1..WordBits |-> IF i > 56 THEN w[i] ELSE 0]
\* bit b of w, b = 0 the least significant
BitOf(w, b) == w[WordBits - b]

\* (uint8_t) w as a natural
RECURSIVE BitsToNat(_, _)
BitsToNat(w, n) ==
  IF n = 0 THEN 0 ELSE 2 * BitsToNat(w, n - 1) + w[WordBits - 8 + n]
ToU8(w) == BitsToNat(w, 8)

---------------------------------------------------------------------------
(* Timing constants of ir_Panasonic.cpp, and those of IRrecv.h / IRsend.h. *)

kPanasonicTick == 432
kPanasonicHdrMarkTicks == 8
kPanasonicHdrMark == kPanasonicHdrMarkTicks * kPanasonicTick
kPanasonicHdrSpaceTicks == 4
kPanasonicHdrSpace == kPanasonicHdrSpaceTicks * kPanasonicTick
kPanasonicBitMarkTicks == 1
kPanasonicBitMark == kPanasonicBitMarkTicks * kPanasonicTick
kPanasonicOneSpaceTicks == 3
kPanasonicOneSpace == kPanasonicOneSpaceTicks * kPanasonicTick
kPanasonicZeroSpaceTicks == 1
kPanasonicZeroSpace == kPanasonicZeroSpaceTicks * kPanasonicTick
kPanasonicMinCommandLengthTicks == 378
kPanasonicMinCommandLength == kPanasonicMinCommandLengthTicks * kPanasonicTick
kPanasonicEndGap == 5000
kPanasonicBits == 48
kPanasonicMinGapTicks ==
  kPanasonicMinCommandLengthTicks -
    (kPanasonicHdrMarkTicks + kPanasonicHdrSpaceTicks +
     kPanasonicBits * (kPanasonicBitMarkTicks + kPanasonicOneSpaceTicks) +
     kPanasonicBitMarkTicks)
kPanasonicMinGap == kPanasonicMinGapTicks * kPanasonicTick
kPanasonicAcSectionGap == 10000
kPanasonicAcMessageGap == 100000
kPanasonicManufacturer == 16388
kPanasonicAcBits == kPanasonicAcStateLength * 8
kPanasonicAcTolerance == 40
kPanasonicAcExcess == 0

kHeader == 2
kFooter == 2
kStartOffset == 1
kRawTick == 2
kTolerance == 25
kMarkExcess == 50
kTimeoutMs == 15
kUint16Max == 65535

---------------------------------------------------------------------------
(* IRsend: what a send call puts on the wire, as the sequence of mark and  *)
(* space durations in microseconds (a mark first, then alternating).       *)

RECURSIVE SumSeq(_)
SumSeq(s) == IF s = <<>> THEN 0 ELSE Head(s) + SumSeq(Tail(s))

RECURSIVE Flatten(_)
Flatten(ss) == IF ss = <<>> THEN <<>> ELSE Head(ss) \o Flatten(Tail(ss))

\* IRsend::sendData: nbits bits of data, one mark and one space per bit
sendData(onemark, onespace, zeromark, zerospace, data, nbits, MSBfirst) ==
  Flatten([k \in 1..nbits |->
     LET b == IF MSBfirst THEN nbits - k ELSE k - 1
     IN  IF b < WordBits /\ BitOf(data, b) = 1
           THEN <<onemark, onespace>>
           ELSE <<zeromark, zerospace>>])

\* IRsend::sendGeneric (uint64_t data): one message; the trailing space
\* fills the message up to mesgtime and is at least gap
sendGenericOnce(headermark, headerspace, onemark, onespace, zeromark, zerospace, footermark, gap, mesgtime, data, nbits, MSBfirst) ==
  LET body == <<headermark, headerspace>> \o
              sendData(onemark, onespace, zeromark, zerospace, data, nbits,
                       MSBfirst) \o
              <<footermark>>
      elapsed == SumSeq(body)
  IN  body \o <<IF elapsed >= mesgtime THEN gap
                ELSE Max(gap, mesgtime - elapsed)>>

sendGeneric(headermark, headerspace, onemark, onespace, zeromark, zerospace, footermark, gap, mesgtime, data, nbits, MSBfirst, repeat) ==
  Flatten([k \in 1..(repeat + 1) |->
     sendGenericOnce(headermark, headerspace, onemark, onespace, zeromark,
                     zerospace, footermark, gap, mesgtime, data, nbits,
                     MSBfirst)])

\* IRsend::sendGeneric (uint8_t *dataptr, nbytes), repeat = 0: one section
sendGenericBytes(headermark, headerspace, onemark, onespace, zeromark, zerospace, footermark, gap, bytes, MSBfirst) ==
  <<headermark, headerspace>> \o
  Flatten([k \in 1..Len(bytes) |->
     sendData(onemark, onespace, zeromark, zerospace, U64(bytes[k]), 8,
              MSBfirst)]) \o
  <<footermark, gap>>

sendPanasonic64(data, nbits, repeat) ==
  sendGeneric(kPanasonicHdrMark, kPanasonicHdrSpace,
              kPanasonicBitMark, kPanasonicOneSpace,
              kPanasonicBitMark, kPanasonicZeroSpace,
              kPanasonicBitMark,
              kPanasonicMinGap, kPanasonicMinCommandLength,
              data, nbits, TRUE, repeat)

sendPanasonic(address, data, nbits, repeat) ==
  sendPanasonic64(Or64(Shl64(U64(address), 32), data), nbits, repeat)

encodePanasonicSumChecksum(manufacturer, device, subdevice, function) ==
  Or64(Shl64(U64(manufacturer), 32),
  Or64(Shl64(U64(device), 24),
  Or64(Shl64(U64(subdevice), 16),
  Or64(Shl64(U64(function), 8),
       U64(U8(device + subdevice + function))))))
encodePanasonicNoChecksum(manufacturer, device, subdevice, function) ==
  Or64(Shl64(U64(manufacturer), 32),
  Or64(Shl64(U64(device), 24),
  Or64(Shl64(U64(subdevice), 16),
       Shl64(U64(function), 8))))
encodePanasonic(manufacturer, device, subdevice, function) ==
  LET checksum == BitXor(BitXor(device, subdevice), function)
  IN  Or64(Shl64(U64(manufacturer), 32),
      Or64(Shl64(U64(device), 24),
      Or64(Shl64(U64(subdevice), 16),
      Or64(Shl64(U64(function), 8),
           U64(checksum)))))

---------------------------------------------------------------------------
(* The capture: decode_results as the receiver hands it to a decoder.      *)
(* rawbuf[0] is the gap before the first mark; every entry is a duration   *)
(* in ticks of kRawTick microseconds, capped at 16 bits.  The capture ends *)
(* with the last mark (the receiver times out in the trailing space) or    *)
(* holds the trailing space as well.  `beyond` is what the memory after    *)
(* the captured entries holds.                                             *)

kStateSizeMax == 53

Capture(output, keepGap, beyond) ==
  LET n == IF keepGap THEN Len(output) ELSE Len(output) - 1
  IN  [rawbuf |-> <<0>> \o [i \in 1..n |->
                     Min(output[i] \div kRawTick, kUint16Max)],
       rawlen |-> n + 1,
       beyond |-> beyond,
       decode_type |-> "UNKNOWN",
       value |-> U64(0),
       address |-> U64(0),
       command |-> U64(0),
       bits |-> 0,
       state |-> [i \in 0..(kStateSizeMax - 1) |-> 0]]

\* results->rawbuf[i]
rawbuf(res, i) == IF i < res.rawlen THEN res.rawbuf[i + 1] ELSE res.beyond

---------------------------------------------------------------------------
(* IRrecv: the timing matchers.                                            *)

\* (uint32_t) max((int32_t) (usecs * (1.0 - tolerance / 100.) - delta), 0)
ticksLow(usecs, tolerance, delta) ==
  Max((usecs * (100 - tolerance)) \div 100 - delta, 0)

\* (uint32_t) (usecs * (1.0 + tolerance / 100.)) + 1 + delta
ticksHigh(usecs, tolerance, delta) ==
  (usecs * (100 + tolerance)) \div 100 + 1 + delta

match(measured, desired, tolerance, delta) ==
  /\ measured * kRawTick >= ticksLow(desired, tolerance, delta)
  /\ measured * kRawTick <= ticksHigh(desired, tolerance, delta)

matchAtLeast(measured, desired, tolerance, delta) ==
  \/ measured * kRawTick = 0
  \/ measured * kRawTick >=
       ticksLow(Min(desired, kTimeoutMs * 1000), tolerance, delta)

matchMark(measured, desired, tolerance, excess) ==
  match(measured, desired + excess, tolerance, 0)

\* desired - excess is unsigned: below zero it wraps to a duration no
\* 16-bit tick count reaches
matchSpace(measured, desired, tolerance, excess) ==
  IF desired < excess THEN FALSE
  ELSE match(measured, desired - excess, tolerance, 0)

\* reverseBits(input, nbits): the low nbits bits of input in reverse order,
\* the bits above them kept
reverseBits(input, nbits) ==
  IF nbits <= 1 THEN input
  ELSE LET n == Min(nbits, WordBits)
       IN  [i \in 1..WordBits |->
              IF i > WordBits - n THEN input[2 * WordBits - n + 1 - i]
              ELSE input[i]]

\* The bits matchData's loop matches from rawbuf[offset] on, in the order
\* they arrive, up to the first pair that is neither a one nor a zero
RECURSIVE MatchBits(_, _, _, _, _, _, _, _, _)
MatchBits(res, offset, nbits, onemark, onespace, zeromark, zerospace, tolerance, excess) ==
  IF nbits = 0 THEN <<>>
  ELSE IF /\ matchMark(rawbuf(res, offset), onemark, tolerance, excess)
          /\ matchSpace(rawbuf(res, offset + 1), onespace, tolerance, excess)
    THEN <<1>> \o MatchBits(res, offset + 2, nbits - 1, onemark, onespace,
                            zeromark, zerospace, tolerance, excess)
  ELSE IF /\ matchMark(rawbuf(res, offset), zeromark, tolerance, excess)
          /\ matchSpace(rawbuf(res, offset + 1), zerospace, tolerance, excess)
    THEN <<0>> \o MatchBits(res, offset + 2, nbits - 1, onemark, onespace,
                            zeromark, zerospace, tolerance, excess)
  ELSE <<>>

\* data = (data << 1) | bit, for each matched bit in turn
ShiftIn(bits) ==
  [i \in 1..WordBits |->
     IF i > WordBits - Len(bits) THEN bits[i - (WordBits - Len(bits))] ELSE 0]

matchData(res, offset, nbits, onemark, onespace, zeromark, zerospace, tolerance, excess, MSBfirst) ==
  LET bits == MatchBits(res, offset, nbits, onemark, onespace, zeromark,
                        zerospace, tolerance, excess)
      data == ShiftIn(bits)
  IN  [success |-> Len(bits) = nbits,
       used |-> 2 * Len(bits),
       data |-> IF MSBfirst THEN data ELSE reverseBits(data, Len(bits))]

\* The rawbuf indices one matchData call reads: both samples of every pair
\* it matched, and of the pair it failed on the mark and, when the mark
\* fitted, the space
dataReads(res, offset, d, nbits, onemark, zeromark, tolerance, excess) ==
  {offset + k : k \in 0..(d.used - 1)} \cup
  (IF d.success THEN {}
   ELSE {offset + d.used} \cup
        (IF \/ matchMark(rawbuf(res, offset + d.used), onemark, tolerance, excess)
            \/ matchMark(rawbuf(res, offset + d.used), zeromark, tolerance, excess)
           THEN {offset + d.used + 1} ELSE {}))

---------------------------------------------------------------------------
(* IRrecv::decodePanasonic.  A decoder is an operator from the             *)
(* decode_results and the arguments to the value returned and the          *)
(* decode_results after the call.                                          *)

\* The compliance section: true when the decoder goes on to "Success"
panasonicCompliantNoManufacturer(data, strict, manufacturer) ==
  LET checksumOrig == Low8(data)
      checksumCalc == Low8(Xor64(Xor64(Shr64(data, 24), Shr64(data, 16)),
                                 Shr64(data, 8)))
  IN  strict => checksumOrig = checksumCalc
panasonicCompliant(data, strict, manufacturer) ==
  LET address == Low32(Shr64(data, 32))
      checksumOrig == Low8(data)
      checksumCalc == Low8(Xor64(Xor64(Shr64(data, 24), Shr64(data, 16)),
                                 Shr64(data, 8)))
  IN  strict => /\ address = U64(manufacturer)
                /\ checksumOrig = checksumCalc

\* What a decodePanasonic call that returns false leaves behind
panasonicFail(res, reads) ==
  [success |-> FALSE, results |-> res, reads |-> reads]

\* From the footer on: data_result is what matchData returned, reads the
\* rawbuf indices looked at so far
panasonicFooter(res, nbits, strict, manufacturer, m_tick, data_result, reads) ==
  LET footer == kStartOffset + 2 + data_result.used
      gapRead == IF footer + 1 < res.rawlen THEN {footer + 1} ELSE {}
  IN  IF ~data_result.success THEN panasonicFail(res, reads)
      ELSE IF ~match(rawbuf(res, footer), kPanasonicBitMarkTicks * m_tick,
                     kTolerance, 0)
        THEN panasonicFail(res, reads \cup {footer})
      ELSE IF /\ footer + 1 < res.rawlen
              /\ ~matchAtLeast(rawbuf(res, footer + 1), kPanasonicEndGap,
                               kTolerance, 0)
        THEN panasonicFail(res, reads \cup {footer, footer + 1})
      ELSE IF ~panasonicCompliant(data_result.data, strict, manufacturer)
        THEN panasonicFail(res, reads \cup {footer} \cup gapRead)
      ELSE [success |-> TRUE,
            results |-> [res EXCEPT
                           !.value = data_result.data,
                           !.address = Low32(Shr64(data_result.data, 32)),
                           !.command = Low32(data_result.data),
                           !.decode_type = "PANASONIC",
                           !.bits = nbits],
            reads |-> reads \cup {footer} \cup gapRead]

\* From matchData on, the header having matched
panasonicData(res, nbits, strict, manufacturer, m_tick, data_result) ==
  panasonicFooter(res, nbits, strict, manufacturer, m_tick, data_result,
                  {kStartOffset, kStartOffset + 1} \cup
                  dataReads(res, kStartOffset + 2, data_result, nbits,
                            kPanasonicBitMarkTicks * m_tick,
                            kPanasonicBitMarkTicks * m_tick,
                            kTolerance, kMarkExcess))

decodePanasonic(res, nbits, strict, manufacturer) ==
  LET offset == kStartOffset
      m_tick == (rawbuf(res, offset) * kRawTick) \div kPanasonicHdrMarkTicks
      s_tick == (rawbuf(res, offset + 1) * kRawTick) \div kPanasonicHdrSpaceTicks
  IN  IF res.rawlen < 2 * nbits + kHeader + kFooter - 1
        THEN panasonicFail(res, {})
      ELSE IF strict /\ nbits # kPanasonicBits THEN panasonicFail(res, {})
      ELSE IF ~matchMark(rawbuf(res, offset), kPanasonicHdrMark,
                         kTolerance, kMarkExcess)
        THEN panasonicFail(res, {offset})
      ELSE IF ~matchSpace(rawbuf(res, offset + 1), kPanasonicHdrSpace,
                          kTolerance, kMarkExcess)
        THEN panasonicFail(res, {offset, offset + 1})
      ELSE panasonicData(res, nbits, strict, manufacturer, m_tick,
                         matchData(res, offset + 2, nbits,
                                   kPanasonicBitMarkTicks * m_tick,
                                   kPanasonicOneSpaceTicks * s_tick,
                                   kPanasonicBitMarkTicks * m_tick,
                                   kPanasonicZeroSpaceTicks * s_tick,
                                   kTolerance, kMarkExcess, TRUE))

---------------------------------------------------------------------------
(* The A/C frame codec: IRsend::sendPanasonicAC's loop body and           *)
(* IRrecv::decodePanasonicAC.                                              *)

\* One pass of sendPanasonicAC's loop: section 1 (8 bytes, then the section
\* gap) and section 2 (the other nbytes - 8 bytes, then the message gap)
sendPanasonicACSections(data, nbytes) ==
  sendGenericBytes(kPanasonicHdrMark, kPanasonicHdrSpace,
                   kPanasonicBitMark, kPanasonicOneSpace,
                   kPanasonicBitMark, kPanasonicZeroSpace,
                   kPanasonicBitMark, kPanasonicAcSectionGap,
                   [k \in 1..kPanasonicAcSection1Length |-> data[k - 1]],
                   FALSE) \o
  sendGenericBytes(kPanasonicHdrMark, kPanasonicHdrSpace,
                   kPanasonicBitMark, kPanasonicOneSpace,
                   kPanasonicBitMark, kPanasonicZeroSpace,
                   kPanasonicBitMark, kPanasonicAcMessageGap,
                   [k \in 1..(nbytes - kPanasonicAcSection1Length) |->
                      data[kPanasonicAcSection1Length + k - 1]],
                   FALSE)

\* The checks before any sample is looked at: true when the decoder goes on
acStructureOkAnyWidth(res, nbits, strict) ==
  /\ ~(strict /\ nbits # kPanasonicAcBits)
  /\ ~(res.rawlen < 1 * (2 * nbits + kHeader + kFooter) - 1)
acStructureOk(res, nbits, strict) ==
  /\ nbits % 8 = 0
  /\ ~(strict /\ nbits # kPanasonicAcBits)
  /\ ~(res.rawlen < 1 * (2 * nbits + kHeader + kFooter) - 1)

\* The compliance section: true when the decoder goes on to "Success"
acCompliantNoChecksum(state, nbits, strict) ==
  strict => ~(state[0] # 2 \/ state[1] # 32 \/ state[8] # 2 \/ state[9] # 32)
acCompliant(state, nbits, strict) ==
  strict => /\ ~(state[0] # 2 \/ state[1] # 32 \/ state[8] # 2 \/ state[9] # 32)
            /\ validChecksum(state, nbits \div 8)

\* The two byte loops: from loop state st (offset, i, the state buffer, the
\* indices read so far), bytes are matched and stored while 16 samples are
\* left and i < limit; a byte that does not match ends the decode
RECURSIVE acByteLoop(_, _, _, _, _)
\* One pass of a byte loop, data_result being what its matchData returned
acByteStep(res, st, limit, m_tick, s_tick, data_result) ==
  IF ~data_result.success
    THEN [st EXCEPT
            !.ok = FALSE,
            !.reads = @ \cup dataReads(res, st.offset, data_result, 8,
                                       kPanasonicBitMarkTicks * m_tick,
                                       kPanasonicBitMarkTicks * m_tick,
                                       kPanasonicAcTolerance, kPanasonicAcExcess)]
    ELSE acByteLoop(res,
           [ok |-> TRUE,
            offset |-> st.offset + data_result.used,
            i |-> st.i + 1,
            state |-> [st.state EXCEPT ![st.i] = ToU8(data_result.data)],
            reads |-> st.reads \cup {st.offset + k : k \in 0..(data_result.used - 1)}],
           limit, m_tick, s_tick)

acByteLoop(res, st, limit, m_tick, s_tick) ==
  IF st.offset <= res.rawlen - 16 /\ st.i < limit
    THEN acByteStep(res, st, limit, m_tick, s_tick,
                    matchData(res, st.offset, 8,
                              kPanasonicBitMarkTicks * m_tick,
                              kPanasonicOneSpaceTicks * s_tick,
                              kPanasonicBitMarkTicks * m_tick,
                              kPanasonicZeroSpaceTicks * s_tick,
                              kPanasonicAcTolerance, kPanasonicAcExcess, FALSE))
    ELSE st

\* What a decodePanasonicAC call that returns false leaves behind
acFailAfterTypeSet(res, state, reads, i) ==
  [success |-> FALSE,
   results |-> [res EXCEPT !.state = state, !.decode_type = "PANASONIC_AC"],
   reads |-> reads, i |-> i]
acFail(res, state, reads, i) ==
  [success |-> FALSE, results |-> [res EXCEPT !.state = state],
   reads |-> reads, i |-> i]

\* From the footer of the message on: sec2 is the second byte loop's outcome
acFooter(res, nbits, strict, m_tick, sec2) ==
  IF ~sec2.ok THEN acFail(res, sec2.state, sec2.reads, sec2.i)
  ELSE IF ~matchMark(rawbuf(res, sec2.offset), kPanasonicBitMarkTicks * m_tick,
                     kPanasonicAcTolerance, kPanasonicAcExcess)
    THEN acFail(res, sec2.state, sec2.reads \cup {sec2.offset}, sec2.i)
  ELSE IF /\ sec2.offset + 1 <= res.rawlen
          /\ ~matchAtLeast(rawbuf(res, sec2.offset + 1), kPanasonicAcMessageGap,
                           kTolerance, 0)
    THEN acFail(res, sec2.state, sec2.reads \cup {sec2.offset, sec2.offset + 1}, sec2.i)
  ELSE IF ~acCompliant(sec2.state, nbits, strict)
    THEN acFail(res, sec2.state,
                sec2.reads \cup {sec2.offset} \cup
                  (IF sec2.offset + 1 <= res.rawlen THEN {sec2.offset + 1} ELSE {}),
                sec2.i)
  ELSE [success |-> TRUE,
        results |-> [res EXCEPT !.state = sec2.state,
                                !.decode_type = "PANASONIC_AC",
                                !.bits = nbits],
        reads |-> sec2.reads \cup {sec2.offset} \cup
                    (IF sec2.offset + 1 <= res.rawlen THEN {sec2.offset + 1} ELSE {}),
        i |-> sec2.i]

\* From the footer of section 1 on: sec1 is the first byte loop's outcome
acSectionGap(res, nbits, strict, m_tick, s_tick, sec1) ==
  IF ~sec1.ok THEN acFail(res, sec1.state, sec1.reads, sec1.i)
  ELSE IF ~matchMark(rawbuf(res, sec1.offset), kPanasonicBitMarkTicks * m_tick,
                     kPanasonicAcTolerance, kPanasonicAcExcess)
    THEN acFail(res, sec1.state, sec1.reads \cup {sec1.offset}, sec1.i)
  ELSE IF ~matchSpace(rawbuf(res, sec1.offset + 1), kPanasonicAcSectionGap,
                      kPanasonicAcTolerance, kPanasonicAcExcess)
    THEN acFail(res, sec1.state, sec1.reads \cup {sec1.offset, sec1.offset + 1}, sec1.i)
  ELSE IF ~matchMark(rawbuf(res, sec1.offset + 2), kPanasonicHdrMarkTicks * m_tick,
                     kPanasonicAcTolerance, kPanasonicAcExcess)
    THEN acFail(res, sec1.state, sec1.reads \cup {sec1.offset, sec1.offset + 1, sec1.offset + 2}, sec1.i)
  ELSE IF ~matchSpace(rawbuf(res, sec1.offset + 3), kPanasonicHdrSpaceTicks * s_tick,
                      kPanasonicAcTolerance, kPanasonicAcExcess)
    THEN acFail(res, sec1.state, sec1.reads \cup {sec1.offset, sec1.offset + 1, sec1.offset + 2, sec1.offset + 3},
                sec1.i)
  ELSE acFooter(res, nbits, strict, m_tick,
                acByteLoop(res,
                           [sec1 EXCEPT
                              !.offset = sec1.offset + 4,
                              !.reads = @ \cup {sec1.offset, sec1.offset + 1, sec1.offset + 2, sec1.offset + 3}],
                           nbits \div 8, m_tick, s_tick))

\* From the first byte loop on, the header having matched
acSections(res, nbits, strict, m_tick, s_tick) ==
  acSectionGap(res, nbits, strict, m_tick, s_tick,
               acByteLoop(res,
                          [ok |-> TRUE, offset |-> kStartOffset + 2, i |-> 0,
                           state |-> res.state,
                           reads |-> {kStartOffset, kStartOffset + 1}],
                          kPanasonicAcSection1Length, m_tick, s_tick))

decodePanasonicAC(res, nbits, strict) ==
  IF ~acStructureOk(res, nbits, strict) THEN acFail(res, res.state, {}, 0)
  ELSE IF ~matchMark(rawbuf(res, kStartOffset), kPanasonicHdrMark,
                     kPanasonicAcTolerance, kPanasonicAcExcess)
    THEN acFail(res, res.state, {kStartOffset}, 0)
  ELSE IF ~matchSpace(rawbuf(res, kStartOffset + 1), kPanasonicHdrSpace,
                      kPanasonicAcTolerance, kPanasonicAcExcess)
    THEN acFail(res, res.state, {kStartOffset, kStartOffset + 1}, 0)
  ELSE acSections(res, nbits, strict,
         (rawbuf(res, kStartOffset) * kRawTick) \div kPanasonicHdrMarkTicks,
         (rawbuf(res, kStartOffset + 1) * kRawTick) \div kPanasonicHdrSpaceTicks)

---------------------------------------------------------------------------
(* Arguments the callers pass.  Each set holds in-range values, the range  *)
(* ends, and values outside the accepted range.                            *)

ModelInputs == KnownModels \cup {kPanasonicUnknown}
ModeInputs == RecognizedModes \cup {5}
TempInputs == {22, 255}
FanInputs == {4, 5, 7}
SwingVInputs == {9, 15}
SwingHInputs == {0, 13}

\* Buffers handed to setRaw: the template, the template as the four
\* variants' marker bytes could be mixed, all zeroes, all ones.
RawInputs ==
  { kPanasonicKnownGoodState,
    [kPanasonicKnownGoodState EXCEPT ![13] = 2, ![17] = 6, ![23] = 1,
                                     ![25] = 6, ![21] = 33, ![14] = 40],
    [i \in 0..(kPanasonicAcStateLength - 1) |-> 0],
    [i \in 0..(kPanasonicAcStateLength - 1) |-> 255] }

\* Calls made on one object in a run of SpecRaw
MaxCalls == 3

---------------------------------------------------------------------------
(* The state model's operations as actions: a call of the method on the    *)
(* one object `this`.  `last` is the method called last.                   *)

Call(s, name) ==
  /\ remote_state' = s.remote_state
  /\ _temp' = s._temp
  /\ _swingh' = s._swingh
  /\ last' = name
  /\ UNCHANGED <<ioVars, txVars>>

Call_stateReset == Call(stateReset(this), "stateReset")
Call_setModel == \E model \in ModelInputs : Call(setModel(this, model), "setModel")
Call_getRaw == Call(getRaw(this), "getRaw")
Call_setRaw == \E state \in RawInputs : Call(setRaw(this, state), "setRaw")
Call_on == Call(on(this), "on")
Call_off == Call(off(this), "off")
Call_setPower == \E state \in BOOLEAN : Call(setPower(this, state), "setPower")
Call_setMode == \E desired \in ModeInputs : Call(setMode(this, desired), "setMode")
Call_setTemp ==
  \E celsius \in TempInputs, remember \in BOOLEAN :
     Call(setTemp(this, celsius, remember), "setTemp")
Call_setSwingV ==
  \E desired_elevation \in SwingVInputs :
     Call(setSwingV(this, desired_elevation), "setSwingV")
Call_setSwingH ==
  \E desired_direction \in SwingHInputs :
     Call(setSwingH(this, desired_direction), "setSwingH")
Call_setFan == \E speed \in FanInputs : Call(setFan(this, speed), "setFan")
Call_setQuiet == \E state \in BOOLEAN : Call(setQuiet(this, state), "setQuiet")
Call_setPowerful ==
  \E state \in BOOLEAN : Call(setPowerful(this, state), "setPowerful")

NoCall == [fn |-> "none"]

\* Nothing sent, nothing captured, no decoder called
IdleIo ==
  /\ pc = "idle"
  /\ sent = NoCall
  /\ results = Capture(<<0>>, FALSE, 0)
  /\ ret = NoCall
  /\ r = 0
  /\ emitted = 0

\* The object as its constructor leaves it
FreshAc ==
  /\ remote_state = stateReset(<<>>).remote_state
  /\ _temp = stateReset(<<>>)._temp
  /\ _swingh = stateReset(<<>>)._swingh
  /\ last = "IRPanasonicAc"
  /\ ncalls = 0

\* IRPanasonicAc::IRPanasonicAc: the constructor calls stateReset()
Init == FreshAc /\ IdleIo

\* Every operation of the state model except setRaw and getRaw, any number
\* of calls.
Setters ==
  \/ Call_stateReset
  \/ Call_setModel
  \/ Call_on
  \/ Call_off
  \/ Call_setPower
  \/ Call_setMode
  \/ Call_setTemp
  \/ Call_setSwingV
  \/ Call_setSwingH
  \/ Call_setFan
  \/ Call_setQuiet
  \/ Call_setPowerful

Next == Setters /\ UNCHANGED ncalls

Spec == Init /\ [][Next]_vars

\* Every operation of the state model, setRaw and getRaw included, at most
\* MaxCalls calls on the object.
NextRaw ==
  /\ ncalls < MaxCalls
  /\ ncalls' = ncalls + 1
  /\ (Setters \/ Call_setRaw \/ Call_getRaw)

SpecRaw == Init /\ [][NextRaw]_vars

---------------------------------------------------------------------------
(* Properties of the state model.                                          *)

\* Values a caller may pass where the property speaks of every value
ByteEdges == {0, 1, 15, 16, 17, 22, 25, 27, 29, 30, 31, 127, 128, 255}
NonFanModes == RecognizedModes \ {kPanasonicAcFan}
ClampTemp(t) == Min(Max(t, kPanasonicAcMinTemp), kPanasonicAcMaxTemp)

\* C2: the buffer getRaw() returns has a valid checksum, whatever calls came
\* before: in every reachable state a call of getRaw() yields a buffer that
\* validChecksum accepts, and the buffer left by the getRaw() call just made
\* is accepted.
C2_GetRawChecksumValid ==
  /\ validChecksum(getRaw(this).remote_state, kPanasonicAcStateLength)
  /\ last = "getRaw" =>
       validChecksum(remote_state, kPanasonicAcStateLength)

\* getRaw() was called on a buffer that setRaw had filled with ones
C2_Witness ==
  /\ last = "getRaw"
  /\ remote_state[0] = 255
  /\ remote_state[kPanasonicAcStateLength - 1] # 255
  /\ validChecksum(remote_state, kPanasonicAcStateLength)

\* C3: Quiet and Powerful are never both set, and setQuiet(true) leaves
\* exactly Quiet set, setPowerful(true) exactly Powerful, from every state
\* reachable without setRaw.
C3_QuietPowerfulExclusive ==
  /\ ~(getQuiet(remote_state) /\ getPowerful(remote_state))
  /\ LET q == setQuiet(this, TRUE).remote_state
         p == setPowerful(this, TRUE).remote_state
     IN  /\ getQuiet(q) /\ ~getPowerful(q)
         /\ getPowerful(p) /\ ~getQuiet(p)
  /\ LET pq == setQuiet(setPowerful(this, TRUE), TRUE).remote_state
         qp == setPowerful(setQuiet(this, TRUE), TRUE).remote_state
     IN  /\ getQuiet(pq) /\ ~getPowerful(pq)
         /\ getPowerful(qp) /\ ~getQuiet(qp)

\* setQuiet was called and left Quiet set, Powerful clear
C3_Witness ==
  /\ last = "setQuiet"
  /\ getQuiet(remote_state)
  /\ ~getPowerful(remote_state)

\* C4: from every reachable state, setTemp(t); setMode(fan) shows the fan
\* mode placeholder temperature, and a following setMode(m), m a recognized
\* mode other than fan, shows clamp(t) again.
C4_FanModeKeepsRememberedTemp ==
  \A t \in ByteEdges, m \in NonFanModes :
     LET s1 == setTemp(this, t, TRUE)
         s2 == setMode(s1, kPanasonicAcFan)
         s3 == setMode(s2, m)
     IN  /\ getTemp(s2.remote_state) = kPanasonicAcFanModeTemp
         /\ getMode(s2.remote_state) = kPanasonicAcFan
         /\ getTemp(s3.remote_state) = ClampTemp(t)
         /\ getMode(s3.remote_state) = m

\* setMode has put the object into fan mode while another temperature than
\* the placeholder and the default is remembered
C4_Witness ==
  /\ last = "setMode"
  /\ getMode(remote_state) = kPanasonicAcFan
  /\ getTemp(remote_state) = kPanasonicAcFanModeTemp
  /\ _temp = 30

\* C5 as stated: on JKE setSwingH(d) leaves byte 17 alone, and setModel to
\* any of the three variants with horizontal swing then shows d.
C5_Original ==
  getModel(remote_state) = kPanasonicJke =>
    \A d \in SwingHDirections :
       LET s1 == setSwingH(this, d)
       IN  /\ s1.remote_state[17] = remote_state[17]
           /\ \A v \in {kPanasonicDke, kPanasonicNke, kPanasonicLke} :
                 getSwingHorizontal(setModel(s1, v).remote_state) = d

\* C5 (amended): on JKE setSwingH(d) leaves byte 17 alone; setModel(DKE)
\* then shows d, and setModel to NKE or LKE shows the middle direction.
C5_SwingHRecoveredOnDke ==
  getModel(remote_state) = kPanasonicJke =>
    \A d \in SwingHDirections :
       LET s1 == setSwingH(this, d)
       IN  /\ s1.remote_state[17] = remote_state[17]
           /\ getSwingHorizontal(setModel(s1, kPanasonicDke).remote_state) = d
           /\ \A v \in {kPanasonicNke, kPanasonicLke} :
                 getSwingHorizontal(setModel(s1, v).remote_state) =
                   kPanasonicAcSwingHMiddle

\* setModel has switched to DKE and byte 17 shows a direction that only an
\* earlier setSwingH can have remembered
C5_Witness ==
  /\ last = "setModel"
  /\ getModel(remote_state) = kPanasonicDke
  /\ getSwingHorizontal(remote_state) = kPanasonicAcSwingHAuto
  /\ _swingh = kPanasonicAcSwingHAuto

\* C9: from every reachable state, setRaw'd buffers included, getModel()
\* right after setModel(v) is v, for each of the four variants.
C9_GetModelAfterSetModel ==
  \A v \in KnownModels : getModel(setModel(this, v).remote_state) = v

\* setModel(DKE) was called on a buffer that setRaw had filled with ones
C9_Witness ==
  /\ last = "setModel"
  /\ remote_state[0] = 255
  /\ getModel(remote_state) = kPanasonicDke

Uint8 == 0..255

\* The bytes of the buffer other than byte k are the same in s and in this
SameExcept(s, k) ==
  \A i \in 0..(kPanasonicAcStateLength - 1) :
     i # k => s.remote_state[i] = remote_state[i]

\* C11: for every x outside {auto, cool, heat, dry, fan}, setMode(x) leaves
\* getMode() = auto and the same object (buffer and remembered temperature)
\* as setMode(auto) from the same state.
C11_UnrecognizedModeIsAuto ==
  \A x \in Uint8 \ RecognizedModes :
     /\ getMode(setMode(this, x).remote_state) = kPanasonicAcAuto
     /\ setMode(this, x) = setMode(this, kPanasonicAcAuto)

\* C12: setSwingH(d) with d one of the six directions remembers d, stores d
\* in byte 17 on DKE, the middle value on NKE and LKE, and leaves byte 17
\* alone on JKE and on an unknown variant; with any other d nothing changes.
C12_SetSwingHByVariant ==
  \E model \in {getModel(remote_state)} :
     \A d \in Uint8 :
        LET after == setSwingH(this, d)
        IN  IF d \in SwingHDirections
              THEN /\ after._swingh = d
                   /\ after._temp = _temp
                   /\ SameExcept(after, 17)
                   /\ model = kPanasonicDke => after.remote_state[17] = d
                   /\ model \in {kPanasonicNke, kPanasonicLke} =>
                        after.remote_state[17] = kPanasonicAcSwingHMiddle
                   /\ model \in {kPanasonicJke, kPanasonicUnknown} =>
                        after.remote_state[17] = remote_state[17]
              ELSE after = this

\* setSwingH(auto) was called on DKE and byte 17 holds it
C12_Witness ==
  /\ last = "setSwingH"
  /\ getModel(remote_state) = kPanasonicDke
  /\ _swingh = kPanasonicAcSwingHAuto
  /\ remote_state[17] = kPanasonicAcSwingHAuto

\* C13: for every 8-bit celsius and either remember flag, setTemp stores
\* 2 * clamp(celsius, 16, 30) in byte 14 (below 256), getTemp() is the
\* clamped value, and _temp becomes it exactly when remember is true.
C13_SetTempClampsAndRemembers ==
  \A celsius \in Uint8, remember \in BOOLEAN :
     \E clamped \in {ClampTemp(celsius)} :
        \E after \in {setTemp(this, celsius, remember)} :
           /\ 2 * clamped < 256
           /\ after.remote_state = [remote_state EXCEPT ![14] = 2 * clamped]
           /\ getTemp(after.remote_state) = clamped
           /\ after._temp = IF remember THEN clamped ELSE _temp
           /\ after._swingh = _swingh

\* setTemp(255) was called: the buffer and the memory hold 30
C13_Witness ==
  /\ last = "setTemp"
  /\ getTemp(remote_state) = kPanasonicAcMaxTemp
  /\ _temp = kPanasonicAcMaxTemp

\* C14: setFan(speed) with speed <= 4 or speed = 7 makes getFan() = speed
\* and keeps the low nibble of byte 16; with any other 8-bit speed the
\* object is unchanged.
C14_SetFanAcceptsOrIgnores ==
  \A speed \in Uint8 :
     LET after == setFan(this, speed)
     IN  IF speed <= kPanasonicAcFanMax \/ speed = kPanasonicAcFanAuto
           THEN /\ getFan(after.remote_state) = speed
                /\ getSwingVertical(after.remote_state) =
                     getSwingVertical(remote_state)
                /\ SameExcept(after, 16)
                /\ after._temp = _temp /\ after._swingh = _swingh
           ELSE after = this

\* setFan(4) was called on a buffer whose swing nibble is not the default
C14_Witness ==
  /\ last = "setFan"
  /\ getFan(remote_state) = kPanasonicAcFanMax
  /\ getSwingVertical(remote_state) = kPanasonicAcSwingVDown

\* C20: after setModel(v) for a known v, a call of on, off, setPower,
\* setMode, setTemp, setFan, setSwingV, setSwingH, setQuiet or setPowerful
\* leaves getModel() = v.
C20_ModelStableUnderSetters ==
  \A v \in KnownModels :
     LET s == setModel(this, v)
     IN  \A after \in
              {on(s), off(s)}
              \cup {setPower(s, b) : b \in BOOLEAN}
              \cup {setMode(s, m) : m \in ModeInputs}
              \cup {setTemp(s, c, b) : c \in TempInputs, b \in BOOLEAN}
              \cup {setFan(s, f) : f \in FanInputs}
              \cup {setSwingV(s, e) : e \in SwingVInputs}
              \cup {setSwingH(s, d) : d \in SwingHDirections}
              \cup {setQuiet(s, b) : b \in BOOLEAN}
              \cup {setPowerful(s, b) : b \in BOOLEAN} :
            getModel(after.remote_state) = v

\* The section signatures the strict decoder looks for
SignaturesOk(state) ==
  state[0] = 2 /\ state[1] = 32 /\ state[8] = 2 /\ state[9] = 32

\* C21: setModel(v) for a known variant v leaves getPower() as it was.
C21_SetModelKeepsPower ==
  \A v \in KnownModels :
     getPower(setModel(this, v).remote_state) = getPower(remote_state)

\* C22: whenever the mode is not fan, getTemp() is the remembered
\* temperature, and setMode(m) with a recognised non-fan m leaves getTemp()
\* as it was.
C22_NonFanTempIsRemembered ==
  getMode(remote_state) # kPanasonicAcFan =>
     /\ getTemp(remote_state) = _temp
     /\ \A m \in NonFanModes :
           getTemp(setMode(this, m).remote_state) = getTemp(remote_state)

\* C23: without setRaw, bytes 0, 1, 8 and 9 keep the section signatures, and
\* the buffer getRaw() returns passes the strict compliance check (the
\* signatures and validChecksum over all kPanasonicAcStateLength bytes);
\* getRaw() itself changes the checksum byte only.
C23_GetRawStrictCompliant ==
  /\ SignaturesOk(remote_state)
  /\ \E raw \in {getRaw(this)} :
        /\ SignaturesOk(raw.remote_state)
        /\ validChecksum(raw.remote_state, kPanasonicAcStateLength)
        /\ acCompliant(raw.remote_state, kPanasonicAcBits, TRUE)
        /\ raw = [this EXCEPT !.remote_state[kPanasonicAcStateLength - 1] =
                                 raw.remote_state[kPanasonicAcStateLength - 1]]

\* A configured object whose buffer holds a stale checksum before getRaw()
C23_Witness ==
  /\ last = "setPowerful"
  /\ getPowerful(remote_state)
  /\ getPower(remote_state)
  /\ getModel(remote_state) = kPanasonicDke
  /\ getMode(remote_state) = kPanasonicAcCool
  /\ ~validChecksum(remote_state, kPanasonicAcStateLength)
  /\ acCompliant(getRaw(this).remote_state, kPanasonicAcBits, TRUE)

---------------------------------------------------------------------------
(* The 48-bit command protocol end to end: a send call, the capture of     *)
(* what it emitted, a decodePanasonic call on the capture.                 *)

\* device << 24 | subdevice << 16 | function << 8 | checksum
Command(device, subdevice, function, checksum) ==
  Or64(Shl64(U64(device), 24),
  Or64(Shl64(U64(subdevice), 16),
  Or64(Shl64(U64(function), 8), U64(checksum))))

ManufacturerInputs == {kPanasonicManufacturer, 4660, 65535}
DeviceInputs == {1, 255}
SubdeviceInputs == {0, 2}
FunctionInputs == {3, 128}
ChecksumInputs == {0, 1}
BitsInputs == {kPanasonicBits, 40}
RepeatInputs == {0, 1}
BeyondInputs == {0, 216}

InitPanasonic == FreshAc /\ IdleIo

\* sendPanasonic64(encodePanasonic(manufacturer, device, subdevice,
\* function), kPanasonicBits, repeat), captured by the receiver
Call_sendEncoded ==
  /\ pc = "idle"
  /\ \E manufacturer \in ManufacturerInputs, device \in DeviceInputs,
        subdevice \in SubdeviceInputs, function \in FunctionInputs,
        repeat \in RepeatInputs, keepGap \in BOOLEAN, beyond \in BeyondInputs :
        LET data == encodePanasonic(manufacturer, device, subdevice, function)
        IN  /\ sent' = [fn |-> "encodePanasonic", manufacturer |-> manufacturer,
                        device |-> device, subdevice |-> subdevice,
                        function |-> function, data |-> data,
                        nbits |-> kPanasonicBits]
            /\ results' = Capture(sendPanasonic64(data, kPanasonicBits, repeat),
                                  keepGap, beyond)
  /\ pc' = "captured"
  /\ UNCHANGED <<acVars, ret, txVars>>

\* sendPanasonic(address, data, nbits, repeat) with any 32 data bits,
\* captured by the receiver
Call_sendPanasonic ==
  /\ pc = "idle"
  /\ \E address \in ManufacturerInputs, device \in DeviceInputs,
        subdevice \in SubdeviceInputs, function \in FunctionInputs,
        checksum \in ChecksumInputs, nbits \in BitsInputs,
        keepGap \in BOOLEAN, beyond \in BeyondInputs :
        LET data == Command(device, subdevice, function, checksum)
        IN  /\ sent' = [fn |-> "sendPanasonic", manufacturer |-> address,
                        device |-> device, subdevice |-> subdevice,
                        function |-> function,
                        data |-> Or64(Shl64(U64(address), 32), data),
                        nbits |-> nbits]
            /\ results' = Capture(sendPanasonic(address, data, nbits, 0),
                                  keepGap, beyond)
  /\ pc' = "captured"
  /\ UNCHANGED <<acVars, ret, txVars>>

Call_decodePanasonic ==
  /\ pc = "captured"
  /\ \E nbits \in BitsInputs, strict \in BOOLEAN,
        manufacturer \in ManufacturerInputs :
        \E out \in {decodePanasonic(results, nbits, strict, manufacturer)} :
            /\ results' = out.results
            /\ ret' = [fn |-> "decodePanasonic", nbits |-> nbits,
                       strict |-> strict, manufacturer |-> manufacturer,
                       success |-> out.success, before |-> results]
  /\ pc' = "decoded"
  /\ UNCHANGED <<acVars, sent, txVars>>

\* IRrecv::resume: the receiver is armed for the next capture
Resume ==
  /\ pc = "decoded"
  /\ pc' = "idle"
  /\ sent' = NoCall
  /\ ret' = NoCall
  /\ results' = Capture(<<0>>, FALSE, 0)
  /\ UNCHANGED <<acVars, txVars>>

NextPanasonic ==
  \/ Call_sendEncoded
  \/ Call_sendPanasonic
  \/ Call_decodePanasonic
  \/ Resume

SpecPanasonic == InitPanasonic /\ [][NextPanasonic]_vars

---------------------------------------------------------------------------
(* Properties of the 48-bit command codec.                                 *)

\* The nbits bits of sent.data that went on the wire
SentWord == [i \in 1..WordBits |->
               IF i > WordBits - sent.nbits THEN sent.data[i] ELSE 0]
SentAddress == Low32(Shr64(SentWord, 32))
SentChecksumValid ==
  Low8(sent.data) =
    U64(BitXor(BitXor(sent.device, sent.subdevice), sent.function))

\* C1: strict decodePanasonic with nbits = 48 and the sender's manufacturer,
\* called on the capture of sendPanasonic64(encodePanasonic(m, d, s, f)),
\* succeeds with address = m and command = d<<24 | s<<16 | f<<8 | d^s^f.
C1_EncodeSendDecodeRoundTrip ==
  ( /\ pc = "decoded"
    /\ sent.fn = "encodePanasonic"
    /\ ret.strict
    /\ ret.nbits = kPanasonicBits
    /\ ret.manufacturer = sent.manufacturer )
  => /\ ret.success
     /\ results.address = U64(sent.manufacturer)
     /\ results.command =
          Command(sent.device, sent.subdevice, sent.function,
                  BitXor(BitXor(sent.device, sent.subdevice), sent.function))
     /\ results.value = sent.data
     /\ results.bits = kPanasonicBits
     /\ results.decode_type = "PANASONIC"

\* A strict round trip of a triple whose checksum is not zero, under a
\* manufacturer code other than Panasonic's
C1_Witness ==
  /\ pc = "decoded"
  /\ sent.fn = "encodePanasonic"
  /\ sent.manufacturer = 4660
  /\ sent.device = 255 /\ sent.subdevice = 2 /\ sent.function = 128
  /\ ret.strict /\ ret.nbits = kPanasonicBits /\ ret.manufacturer = 4660
  /\ ret.success
  /\ results.command = Command(255, 2, 128, 125)

\* C7: strict decodePanasonic fails when nbits is not 48, when the address
\* the sequence carries is not the expected manufacturer, and when the last
\* byte is not the XOR of the three before it; non-strict decodePanasonic of
\* a well-timed sequence of nbits bits succeeds whatever the manufacturer
\* code and the checksum.
C7_StrictRejectsLenientAccepts ==
  pc = "decoded" =>
    /\ (ret.strict /\ ret.nbits # kPanasonicBits) => ~ret.success
    /\ (ret.strict /\ SentAddress # U64(ret.manufacturer)) => ~ret.success
    /\ (ret.strict /\ ~SentChecksumValid) => ~ret.success
    /\ (~ret.strict /\ ret.nbits = sent.nbits) =>
         /\ ret.success
         /\ results.value = SentWord
         /\ results.address = SentAddress

\* A well-timed 48-bit sequence with a bad checksum and manufacturer 0x1234
\* was decoded without strict and accepted
C7_Witness ==
  /\ pc = "decoded"
  /\ sent.fn = "sendPanasonic"
  /\ sent.nbits = kPanasonicBits
  /\ sent.manufacturer = 4660
  /\ ~SentChecksumValid
  /\ ~ret.strict
  /\ ret.manufacturer = kPanasonicManufacturer
  /\ ret.success
  /\ results.address = U64(4660)

\* Bit b of the natural n
BitOfNat(n, b) == (n \div Pow2(b)) % 2

\* The layout of a command: bits 0-7 the XOR of the three bytes, 8-15
\* function, 16-23 subdevice, 24-31 device, 32-47 manufacturer, 48-63 zero
HasCommandLayout(w, manufacturer, device, subdevice, function) ==
  \A b \in 0..(WordBits - 1) :
     BitOf(w, b) =
       IF b < 8 THEN (BitOfNat(device, b) + BitOfNat(subdevice, b) +
                      BitOfNat(function, b)) % 2
       ELSE IF b < 16 THEN BitOfNat(function, b - 8)
       ELSE IF b < 24 THEN BitOfNat(subdevice, b - 16)
       ELSE IF b < 32 THEN BitOfNat(device, b - 24)
       ELSE IF b < 48 THEN BitOfNat(manufacturer, b - 32)
       ELSE 0

ManufacturerEdges == {0, 1, 4660, 16388, 32768, 65535}
ByteCorners == {0, 1, 127, 128, 255}

\* C15: encodePanasonic(m, d, s, f) is m<<32 | d<<24 | s<<16 | f<<8 | d^s^f
\* with bits 48..63 zero: bit by bit for the word every encoding call sent,
\* and for the corner values of the four arguments.
C15_EncodeLayout ==
  /\ sent.fn = "encodePanasonic" =>
       HasCommandLayout(sent.data, sent.manufacturer, sent.device,
                        sent.subdevice, sent.function)
  /\ pc = "idle" =>
       \A m \in ManufacturerEdges, d \in ByteCorners, s \in ByteCorners,
          f \in ByteCorners :
          HasCommandLayout(encodePanasonic(m, d, s, f), m, d, s, f)

\* An encoding call with all 16 manufacturer bits set was sent
C15_Witness ==
  /\ pc = "captured"
  /\ sent.fn = "encodePanasonic"
  /\ sent.manufacturer = 65535
  /\ sent.device = 255 /\ sent.subdevice = 2 /\ sent.function = 128
  /\ BitOf(sent.data, 47) = 1 /\ BitOf(sent.data, 48) = 0

---------------------------------------------------------------------------
(* The A/C frame protocol end to end: sendPanasonicAC (one pass of its     *)
(* loop) on a buffer, the capture, a decodePanasonicAC call.               *)

\* Objects an application sends: getRaw() of these is the buffer
AcObjects ==
  { stateReset(<<>>),
    setTemp(setMode(on(setModel(stateReset(<<>>), kPanasonicDke)),
                    kPanasonicAcCool), 22, TRUE),
    setQuiet(setFan(setModel(stateReset(<<>>), kPanasonicLke),
                    kPanasonicAcFanAuto), TRUE) }
AcBuffers == { getRaw(s).remote_state : s \in AcObjects }

\* A byte of the buffer replaced before sending (index -1: none), by the
\* old value plus a delta mod 256
TamperIndexes == {-1} \cup (0..(kPanasonicAcStateLength - 2))
TamperDeltas == {1, 128}
AcBitsInputs == {kPanasonicAcBits, kPanasonicAcBits - 8, kPanasonicAcBits - 4}

Call_sendPanasonicAC ==
  /\ pc = "idle"
  /\ \E state \in AcBuffers, index \in TamperIndexes, delta \in TamperDeltas,
        keepGap \in BOOLEAN, beyond \in BeyondInputs :
        LET data == IF index = -1 THEN state
                    ELSE [state EXCEPT ![index] = U8(@ + delta)]
        IN  /\ (index = -1 => delta = 1)
            /\ sent' = [fn |-> "sendPanasonicAC", state |-> state,
                        data |-> data, index |-> index,
                        nbytes |-> kPanasonicAcStateLength,
                        keepGap |-> keepGap]
            /\ results' = Capture(sendPanasonicACSections(
                                    data, kPanasonicAcStateLength),
                                  keepGap, beyond)
  /\ pc' = "captured"
  /\ UNCHANGED <<acVars, ret, txVars>>

Call_decodePanasonicAC ==
  /\ pc = "captured"
  /\ \E nbits \in AcBitsInputs, strict \in BOOLEAN :
        \E out \in {decodePanasonicAC(results, nbits, strict)} :
            /\ results' = out.results
            /\ ret' = [fn |-> "decodePanasonicAC", nbits |-> nbits,
                       strict |-> strict, success |-> out.success,
                       reads |-> out.reads, i |-> out.i, before |-> results]
  /\ pc' = "decoded"
  /\ UNCHANGED <<acVars, sent, txVars>>

InitPanasonicAC == FreshAc /\ IdleIo

NextPanasonicAC ==
  \/ Call_sendPanasonicAC
  \/ Call_decodePanasonicAC
  \/ Resume

SpecPanasonicAC == InitPanasonicAC /\ [][NextPanasonicAC]_vars

---------------------------------------------------------------------------
(* Properties of the A/C frame codec.                                      *)

DecodedBytes == [i \in 0..(kPanasonicAcStateLength - 1) |-> results.state[i]]

\* C6: of a complete well-timed frame (the message gap included) that
\* carries an L byte buffer with both signatures and a valid checksum,
\* strict decodePanasonicAC succeeds; with one of the bytes 0..L-2 replaced
\* by another value and the checksum left as it was, strict decode fails
\* and non-strict decode succeeds and yields the bytes sent.
C6_StrictDetectsAlteredByte ==
  ( /\ pc = "decoded"
    /\ sent.keepGap
    /\ ret.nbits = kPanasonicAcBits
    /\ SignaturesOk(sent.state)
    /\ validChecksum(sent.state, kPanasonicAcStateLength) )
  => /\ (sent.index = -1 /\ ret.strict) =>
          (ret.success /\ DecodedBytes = sent.state)
     /\ (sent.index # -1 /\ ret.strict) => ~ret.success
     /\ (sent.index # -1 /\ ~ret.strict) =>
          (ret.success /\ DecodedBytes = sent.data)

\* Strict decode refused a complete frame in which only byte 14 (the
\* temperature) was altered
C6_Witness ==
  /\ pc = "decoded"
  /\ sent.keepGap
  /\ sent.index = 14
  /\ sent.data # sent.state
  /\ ret.nbits = kPanasonicAcBits
  /\ ret.strict
  /\ ~ret.success
  /\ DecodedBytes = sent.data

\* C10: with nbits not a multiple of 8 decodePanasonicAC returns false,
\* strict or not, having read no raw sample and written no byte of the
\* state buffer: for the call just made, and for a call with any such
\* nbits on every capture.
C10_OddWidthFailsUntouched ==
  /\ (pc = "decoded" /\ ret.nbits % 8 # 0) =>
        /\ ~ret.success
        /\ ret.reads = {}
        /\ results = ret.before
  /\ pc = "captured" =>
        \A nbits \in 1..(kPanasonicAcBits + 8), strict \in BOOLEAN :
           nbits % 8 # 0 =>
              LET out == decodePanasonicAC(results, nbits, strict)
              IN  ~out.success /\ out.reads = {} /\ out.results = results

\* A non-strict decode with nbits = 212 of a capture long enough for 212
\* bits was refused
C10_Witness ==
  /\ pc = "decoded"
  /\ ret.nbits = kPanasonicAcBits - 4
  /\ ~ret.strict
  /\ ret.before.rawlen >= 2 * ret.nbits + kHeader + kFooter - 1
  /\ ~ret.success
  /\ ret.reads = {}

---------------------------------------------------------------------------
(* IRsend::sendPanasonicAC's loop, one pass per step.  r is the uint16_t   *)
(* loop counter; emitted counts the passes made, each pass emitting        *)
(* sendPanasonicACSections(data, nbytes).                                  *)

kUint16Range == 65536

NbytesInputs == {kPanasonicAcStateLength - 1, kPanasonicAcStateLength}
Repeat16Inputs == {0, 1, 2, kUint16Range - 2, kUint16Range - 1}

\* Passes after which the model stops following a loop
MaxPasses == 65540

\* The call: `if (nbytes < kPanasonicAcStateLength) return;` and r = 0
sendPanasonicAC_call ==
  /\ pc = "idle"
  /\ \E nbytes \in NbytesInputs, repeat \in Repeat16Inputs :
        /\ sent' = [fn |-> "sendPanasonicAC", nbytes |-> nbytes,
                    repeat |-> repeat]
        /\ pc' = IF nbytes < kPanasonicAcStateLength THEN "returned"
                 ELSE "loop"
  /\ r' = 0
  /\ emitted' = 0
  /\ UNCHANGED <<acVars, results, ret>>

\* One pass: `r <= repeat` held, both sections are emitted, then r++
sendPanasonicAC_pass ==
  /\ pc = "loop"
  /\ r <= sent.repeat
  /\ emitted < MaxPasses
  /\ emitted' = emitted + 1
  /\ r' = (r + 1) % kUint16Range
  /\ UNCHANGED <<acVars, pc, sent, results, ret>>

\* `r <= repeat` failed: the function returns
sendPanasonicAC_exit ==
  /\ pc = "loop"
  /\ ~(r <= sent.repeat)
  /\ pc' = "returned"
  /\ UNCHANGED <<acVars, sent, results, ret, txVars>>

\* The caller goes on to its next call
sendPanasonicAC_next ==
  /\ pc = "returned"
  /\ pc' = "idle"
  /\ sent' = NoCall
  /\ r' = 0
  /\ emitted' = 0
  /\ UNCHANGED <<acVars, results, ret>>

InitSendAC ==
  /\ FreshAc
  /\ pc = "idle"
  /\ sent = NoCall
  /\ results = NoCall
  /\ ret = NoCall
  /\ r = 0
  /\ emitted = 0

NextSendAC ==
  \/ sendPanasonicAC_call
  \/ sendPanasonicAC_pass
  \/ sendPanasonicAC_exit
  \/ sendPanasonicAC_next

SpecSendAC == InitSendAC /\ [][NextSendAC]_vars

\* C8: for every 16-bit repeat and nbytes >= L, sendPanasonicAC makes
\* exactly repeat + 1 passes and returns: never more than repeat + 1 passes,
\* a call that has returned made exactly repeat + 1, and a loop that has
\* made repeat + 1 passes is at its exit.
C8_SendsRepeatPlusOne ==
  (sent.fn = "sendPanasonicAC" /\ sent.nbytes >= kPanasonicAcStateLength) =>
     /\ emitted <= sent.repeat + 1
     /\ pc = "returned" => emitted = sent.repeat + 1
     /\ (pc = "loop" /\ emitted = sent.repeat + 1) => ~(r <= sent.repeat)

---------------------------------------------------------------------------
(* The decoders on any capture: frames of 8, 26 or 27 bytes and 48-bit     *)
(* words, one or two in a row, cut off where the capture buffer is full,   *)
(* in a decode_results whose decoded fields an earlier decoder may have    *)
(* left set.                                                               *)

\* Decoded fields of a decode_results before a decoder is called: as
\* IRrecv::decode resets them, or as another decoder left them
PriorFields ==
  { [decode_type |-> "UNKNOWN", value |-> U64(0), address |-> U64(0),
     command |-> U64(0), bits |-> 0],
    [decode_type |-> "NEC", value |-> U64(16711935), address |-> U64(255),
     command |-> U64(255), bits |-> 32] }

withPrior(res, prior) ==
  [res EXCEPT !.decode_type = prior.decode_type, !.value = prior.value,
              !.address = prior.address, !.command = prior.command,
              !.bits = prior.bits]

\* The capture stops when rawbuf is full: at most bufsize entries are kept
Truncate(res, bufsize) ==
  [res EXCEPT !.rawbuf = SubSeq(@, 1, Min(res.rawlen, bufsize)),
              !.rawlen = Min(@, bufsize)]

Repeated(output, copies) == Flatten([k \in 1..copies |-> output])

BufSizes == {99, 436, 1000}
FrameLengths == {kPanasonicAcSection1Length, kPanasonicAcStateLength - 1,
                 kPanasonicAcStateLength}
CopiesInputs == {1, 2}
AcWidthInputs == {32, 64, kPanasonicAcBits - 8, kPanasonicAcBits}

\* A transmitter frames nbytes bytes the way sendPanasonicAC's loop does
Capture_frame ==
  /\ pc = "idle"
  /\ \E nbytes \in FrameLengths, copies \in CopiesInputs, keepGap \in BOOLEAN,
        beyond \in BeyondInputs, bufsize \in BufSizes, prior \in PriorFields :
        /\ sent' = [fn |-> "frame", nbytes |-> nbytes, copies |-> copies,
                    keepGap |-> keepGap, bufsize |-> bufsize]
        /\ results' =
             withPrior(
               Truncate(
                 Capture(Repeated(sendPanasonicACSections(
                                    getRaw(stateReset(<<>>)).remote_state,
                                    nbytes), copies),
                         keepGap, beyond),
                 bufsize),
               prior)
  /\ pc' = "captured"
  /\ UNCHANGED <<acVars, ret, txVars>>

\* sendPanasonic64 of an encoded command, once or with one repeat
Capture_word ==
  /\ pc = "idle"
  /\ \E manufacturer \in ManufacturerInputs, repeat \in RepeatInputs,
        keepGap \in BOOLEAN, beyond \in BeyondInputs, bufsize \in BufSizes,
        prior \in PriorFields :
        /\ sent' = [fn |-> "word", manufacturer |-> manufacturer,
                    repeat |-> repeat, keepGap |-> keepGap,
                    bufsize |-> bufsize]
        /\ results' =
             withPrior(
               Truncate(
                 Capture(sendPanasonic64(
                           encodePanasonic(manufacturer, 1, 2, 128),
                           kPanasonicBits, repeat),
                         keepGap, beyond),
                 bufsize),
               prior)
  /\ pc' = "captured"
  /\ UNCHANGED <<acVars, ret, txVars>>

Decode_PanasonicAC ==
  /\ pc = "captured"
  /\ \E nbits \in AcWidthInputs, strict \in BOOLEAN :
        \E out \in {decodePanasonicAC(results, nbits, strict)} :
            /\ results' = out.results
            /\ ret' = [fn |-> "decodePanasonicAC", nbits |-> nbits,
                       strict |-> strict, success |-> out.success,
                       reads |-> out.reads, i |-> out.i, before |-> results]
  /\ pc' = "decoded"
  /\ UNCHANGED <<acVars, sent, txVars>>

Decode_Panasonic ==
  /\ pc = "captured"
  /\ \E nbits \in BitsInputs, strict \in BOOLEAN,
        manufacturer \in ManufacturerInputs :
        \E out \in {decodePanasonic(results, nbits, strict, manufacturer)} :
            /\ results' = out.results
            /\ ret' = [fn |-> "decodePanasonic", nbits |-> nbits,
                       strict |-> strict, manufacturer |-> manufacturer,
                       success |-> out.success, reads |-> out.reads,
                       before |-> results]
  /\ pc' = "decoded"
  /\ UNCHANGED <<acVars, sent, txVars>>

InitDecode == FreshAc /\ IdleIo

NextDecode ==
  \/ Capture_frame
  \/ Capture_word
  \/ Decode_PanasonicAC
  \/ Decode_Panasonic
  \/ Resume

SpecDecode == InitDecode /\ [][NextDecode]_vars

\* C16: when decodePanasonic or decodePanasonicAC returns false, value,
\* address, command, decode_type and bits are what they were before the call.
C16_FailureLeavesFields ==
  (pc = "decoded" /\ ~ret.success) =>
     /\ results.value = ret.before.value
     /\ results.address = ret.before.address
     /\ results.command = ret.before.command
     /\ results.decode_type = ret.before.decode_type
     /\ results.bits = ret.before.bits

\* decodePanasonicAC stored bytes, then returned false on a decode_results
\* that held another decoder's fields
C16_Witness ==
  /\ pc = "decoded"
  /\ ret.fn = "decodePanasonicAC"
  /\ ~ret.success
  /\ ret.i > 0
  /\ results.state # ret.before.state
  /\ ret.before.decode_type = "NEC"
  /\ results.decode_type = "NEC" /\ results.bits = 32

\* C17: a decodePanasonicAC call that returns true with bits = nbits has
\* stored exactly nbits / 8 bytes, state[0 .. nbits/8 - 1].
C17_SuccessHasAllBytes ==
  (pc = "decoded" /\ ret.fn = "decodePanasonicAC" /\ ret.success) =>
     ret.i = ret.nbits \div 8

\* C18: every rawbuf index decodePanasonicAC reads is below rawlen.
C18_AcReadsWithinCapture ==
  (pc = "decoded" /\ ret.fn = "decodePanasonicAC") =>
     \A k \in ret.reads : k < ret.before.rawlen

\* C19: when rawlen >= 2 * nbits + kHeader + kFooter - 1, every rawbuf index
\* decodePanasonic reads is below rawlen.
C19_ReadsWithinCapture ==
  ( /\ pc = "decoded"
    /\ ret.fn = "decodePanasonic"
    /\ ret.before.rawlen >= 2 * ret.nbits + kHeader + kFooter - 1 )
  => \A k \in ret.reads : k < ret.before.rawlen

=============================================================================
